---- MODULE Spec2Model ----
(***************************************************************************)
(* State-machine model of solidity_fcg_tool: the engine registry, the      *)
(* analysis engine (AnalysisEngine / SlitherEngine), the normalization of  *)
(* backend objects into the domain model, and the QueryService facade.     *)
(*                                                                         *)
(* Python strings are modelled as sequences of one-character strings, so   *)
(* that substring search, split and strip are computed, not assumed.       *)
(* Python None is a value of its own for every optional type.              *)
(***************************************************************************)
EXTENDS Integers, Sequences, FiniteSets, TLC

VARIABLES
    registry,   \* ENGINE_REGISTRY._engines: name -> registration, NoReg if absent
    svc,        \* the QueryService instance: engine_name, engine_kwargs, _engine, _project
    engine,     \* the AnalysisEngine instance (NoEngine until constructed)
    backend,    \* what the external analyzer reports for the project on disk
    result,     \* outcome of the last operation: value returned or exception raised
    hist,       \* counters of load() / ensure_loaded() invocations and cache writes
    arg,        \* input of the pure adapter function under check
    ret,        \* output of the pure adapter function under check
    pc          \* position of the pure-function driver

vars == <<registry, svc, engine, backend, result, hist, arg, ret, pc>>
svcVars == <<registry, svc, engine, backend, result, hist>>
pureVars == <<arg, ret, pc>>

(***************************************************************************)
(* Bounds of the model.                                                    *)
(***************************************************************************)
MaxPieces == 5      \* pieces concatenated into a raw signature string
MaxSites == 2       \* call sites in one backend-reported call list
MaxEdges == 3       \* edges in an engine edge sequence given to the filter
MaxOps == 4         \* operations counted on one engine
MaxCalls == 3       \* operations counted on one service
MaxLookups == 2     \* lookups counted on one service
MaxThreads == 2     \* threads calling ensure_loaded on one engine
MaxLines == 2       \* line numbers the backend reports for one function
MaxRegistryCalls == 4   \* register and lookup calls counted on the registry

(***************************************************************************)
(* Python strings and None.                                                *)
(***************************************************************************)
NoneStr == <<"<None>">>            \* None where a str is expected
MissingAttr == <<"<missing>">>     \* getattr() finds no such attribute
Whitespace == {" ", "\t", "\n"}

\* bool(value) of an Optional[str]: None, a missing attribute and "" are falsy
Truthy(s) == s # NoneStr /\ s # MissingAttr /\ s # <<>>

\* getattr(obj, attr, default) on a backend object modelled as a record
GetAttr(value, default) == IF value = MissingAttr THEN default ELSE value

\* Op applied to the value of v, which is computed once
With(v, Op(_)) == CHOOSE y \in {Op(x) : x \in {v}} : TRUE

RECURSIVE LStrip(_)
LStrip(s) ==
    IF s = <<>> THEN s
    ELSE IF Head(s) \in Whitespace THEN LStrip(Tail(s)) ELSE s

RECURSIVE RStrip(_)
RStrip(s) ==
    IF s = <<>> THEN s
    ELSE IF s[Len(s)] \in Whitespace THEN RStrip(SubSeq(s, 1, Len(s) - 1)) ELSE s

\* str.strip()
Strip(s) == RStrip(LStrip(s))

\* the indexes at which sub occurs in s
Occurrences(s, sub) ==
    {i \in 1..(Len(s) - Len(sub) + 1) : SubSeq(s, i, i + Len(sub) - 1) = sub}

\* sub in s
Contains(s, sub) == Occurrences(s, sub) # {}

Min(S) == CHOOSE x \in S : \A y \in S : x <= y
Max(S) == CHOOSE x \in S : \A y \in S : x >= y

\* s.split(sub, 1)[0]: the part before the first occurrence (s if none)
SplitFirstHead(s, sub) ==
    IF Contains(s, sub) THEN SubSeq(s, 1, Min(Occurrences(s, sub)) - 1) ELSE s

\* s.rsplit(sub, 1)[0]: the part before the last occurrence
SplitLastHead(s, sub) ==
    IF Contains(s, sub) THEN SubSeq(s, 1, Max(Occurrences(s, sub)) - 1) ELSE s

\* s.split(sub, 1)[1]: the part after the first occurrence
SplitFirstTail(s, sub) ==
    LET i == Min(Occurrences(s, sub)) IN SubSeq(s, i + Len(sub), Len(s))

(***************************************************************************)
(* SlitherEngine._normalize_signature                                      *)
(***************************************************************************)
marker == <<" ", "r", "e", "t", "u", "r", "n", "s">>

\* a slip: cut at the last " returns" instead of the first
NormalizeAtLastMarker(signature) ==
    IF ~Truthy(signature) THEN signature
    ELSE LET cut == IF Contains(signature, marker)
                    THEN Strip(SplitLastHead(signature, marker))
                    ELSE signature
         IN  Strip(cut)

_normalize_signature(signature) ==
    IF ~Truthy(signature) THEN signature
    ELSE LET cut == IF Contains(signature, marker)
                    THEN Strip(SplitFirstHead(signature, marker))
                    ELSE signature
         IN  Strip(cut)

(***************************************************************************)
(* SlitherEngine._extract_signature: a backend function object is a record *)
(* with the attributes signature_str, canonical_name, name and contract.   *)
(***************************************************************************)
_extract_signature(function) ==
    IF Truthy(function.signature_str)
    THEN _normalize_signature(function.signature_str)
    ELSE IF Truthy(function.canonical_name)
    THEN IF Contains(function.canonical_name, <<".">>)
         THEN _normalize_signature(SplitFirstTail(function.canonical_name, <<".">>))
         ELSE _normalize_signature(function.canonical_name)
    ELSE IF Truthy(function.name)
    THEN _normalize_signature(function.name)
    ELSE _normalize_signature(GetAttr(function.name, <<"<", "u", "n", "k", "n", "o", "w", "n", ">">>))

(***************************************************************************)
(* Driver of the signature canonicalization on bounded inputs.             *)
(***************************************************************************)
Pieces == {
    <<" ">>,
    <<"\t">>,
    <<"r", "e", "t", "u", "r", "n", "s">>,
    <<"f", "(", ")">>,
    <<"(", "u", ")">> }

RECURSIVE Concats(_)
Concats(n) ==
    IF n = 0 THEN {<<>>}
    ELSE LET shorter == Concats(n - 1)
         IN  shorter \cup {s \o p : s \in shorter, p \in Pieces}

InitNormalize ==
    /\ arg \in Concats(MaxPieces) \cup {NoneStr}
    /\ ret = <<>>
    /\ pc = "start"
    /\ registry = <<>> /\ svc = <<>> /\ engine = <<>> /\ backend = <<>>
    /\ result = <<>> /\ hist = <<>>

NormalizeOnce ==
    /\ pc = "start"
    /\ ret' = <<_normalize_signature(arg)>>
    /\ pc' = "once"
    /\ UNCHANGED <<arg, svcVars>>

NormalizeAgain ==
    /\ pc = "once"
    /\ ret' = Append(ret, _normalize_signature(ret[1]))
    /\ pc' = "twice"
    /\ UNCHANGED <<arg, svcVars>>

NextNormalize == NormalizeOnce \/ NormalizeAgain

SpecNormalize == InitNormalize /\ [][NextNormalize]_vars

\* C7: normalize(normalize(x)) = normalize(x) for every x, and an input that
\* holds a " returns" clause comes out without " returns" and without
\* leading or trailing whitespace.
C7_NormalizeIdempotent ==
    /\ pc = "twice" => ret[2] = ret[1]
    /\ (pc # "start" /\ arg # NoneStr /\ Contains(arg, marker)) =>
          /\ ~Contains(ret[1], marker)
          /\ ret[1] # <<>> => (ret[1][1] \notin Whitespace /\ ret[1][Len(ret[1])] \notin Whitespace)

\* an input whose " returns" clause is cut off and whose remaining head still
\* had blanks to trim, normalized twice
C7_Witness ==
    /\ pc = "twice"
    /\ Contains(arg, marker)
    /\ ret[1] # <<>>
    /\ Len(ret[1]) < Len(SplitFirstHead(arg, marker))

(***************************************************************************)
(* Backend (analyzer) objects.  A function object is a record with the     *)
(* attributes the adapter probes; `contract` holds contract.name, or       *)
(* NoneStr when the object has no owning contract.  A call site carries    *)
(* the four wrapper attributes probed by append_call (NoObj when absent or *)
(* None) and, in `own`, the attributes of the site object itself.          *)
(***************************************************************************)
NoObj == [none |-> TRUE]

FunctionIdentifier(contract, signature) == [contract |-> contract, signature |-> signature]

\* the object append_call resolves a non-None callee to: the first wrapper
\* attribute that is not None, else the callee itself
CallTarget(callee) ==
    IF callee.function # NoObj THEN callee.function
    ELSE IF callee.called # NoObj THEN callee.called
    ELSE IF callee.function_called # NoObj THEN callee.function_called
    ELSE IF callee.function_callee # NoObj THEN callee.function_callee
    ELSE callee.own

\* a slip: an unresolved call site is kept under an empty contract name
AppendCallKeepsUnresolved(state, callee) ==
    IF callee = NoObj THEN state
    ELSE LET target == CallTarget(callee)
             contract == IF target.contract = NoneStr THEN <<>> ELSE target.contract
         IN  With(<<contract, _extract_signature(target)>>,
                  LAMBDA identifier :
                      IF identifier \in state.seen THEN state
                      ELSE [seen |-> state.seen \cup {identifier},
                            calls |-> Append(state.calls,
                                FunctionIdentifier(identifier[1], identifier[2]))])

\* append_call, the closure of _extract_calls; state is its (calls, seen)
append_call(state, callee) ==
    IF callee = NoObj THEN state
    ELSE LET target == CallTarget(callee)
         IN  IF target.contract = NoneStr THEN state
             ELSE With(<<target.contract, _extract_signature(target)>>,
                       LAMBDA identifier :
                           IF identifier \in state.seen THEN state
                           ELSE [seen |-> state.seen \cup {identifier},
                                 calls |-> Append(state.calls,
                                     FunctionIdentifier(identifier[1], identifier[2]))])

\* SlitherEngine._iterate_attribute for one attribute value.  The value is
\* [kind, items]: "none" (missing or None), "list" (list, tuple or set),
\* "scalar" (any other object, yielded itself), "method" (a callable whose
\* call returns the list), "method_typeerror" (a callable whose call raises
\* TypeError), "method_none" (a callable returning None).
IterateValue(value) ==
    CASE value.kind = "none" -> <<>>
      [] value.kind = "method_typeerror" -> <<>>
      [] value.kind = "method_none" -> <<>>
      [] value.kind = "scalar" -> <<value.items[1]>>
      [] OTHER -> value.items

RECURSIVE _iterate_attribute(_, _)
_iterate_attribute(obj, names) ==
    IF names = <<>> THEN <<>>
    ELSE IterateValue(obj[Head(names)]) \o _iterate_attribute(obj, Tail(names))

RECURSIVE WalkCalls(_, _)
WalkCalls(state, callees) ==
    IF callees = <<>> THEN state
    ELSE With(append_call(state, Head(callees)),
              LAMBDA next : WalkCalls(next, Tail(callees)))

InternalCallAttrs == <<"all_internal_calls", "internal_calls", "functions_called">>
ExternalCallAttrs == <<"external_calls_as_functions">>

\* SlitherEngine._extract_calls
_extract_calls(function) ==
    With(WalkCalls([seen |-> {}, calls |-> <<>>],
                   _iterate_attribute(function, InternalCallAttrs)),
         LAMBDA internal :
             WalkCalls(internal, _iterate_attribute(function, ExternalCallAttrs)).calls)

(***************************************************************************)
(* Driver of the call extraction on bounded backend call lists.            *)
(***************************************************************************)
cA == <<"A">>
cB == <<"B">>
sigF == <<"f", "(", ")">>
sigG == <<"g", "(", ")">>

Fn(contract, signature_str, canonical_name, name) ==
    [contract |-> contract, signature_str |-> signature_str,
     canonical_name |-> canonical_name, name |-> name]

FnAf == Fn(cA, sigF, MissingAttr, <<"f">>)
FnAfReturns == Fn(cA, sigF \o marker \o <<"(", "u", ")">>, MissingAttr, <<"f">>)
FnBf == Fn(cB, NoneStr, cB \o <<".">> \o sigF, <<"f">>)
FnAg == Fn(cA, <<>>, <<>>, <<"g">>)
FnOrphan == Fn(NoneStr, sigF, MissingAttr, <<"f">>)

Direct(fn) ==
    [function |-> NoObj, called |-> NoObj, function_called |-> NoObj,
     function_callee |-> NoObj, own |-> fn]

CallSites == {
    NoObj,
    Direct(FnAf), Direct(FnAfReturns), Direct(FnBf), Direct(FnAg), Direct(FnOrphan),
    [Direct(FnOrphan) EXCEPT !.function = FnBf],
    [Direct(FnAf) EXCEPT !.called = FnOrphan, !.function_callee = FnAg] }

RECURSIVE SeqsUpTo(_, _)
SeqsUpTo(S, n) ==
    IF n = 0 THEN {<<>>}
    ELSE LET shorter == SeqsUpTo(S, n - 1)
         IN  shorter \cup {Append(q, x) : q \in shorter, x \in S}

NoAttr == [kind |-> "none", items |-> <<>>]
ListAttr(items) == [kind |-> "list", items |-> items]

CallInputs ==
    [all_internal_calls : {ListAttr(q) : q \in SeqsUpTo(CallSites, MaxSites)},
     internal_calls : {NoAttr} \cup {ListAttr(<<x>>) : x \in {Direct(FnAf), Direct(FnBf)}},
     functions_called : {NoAttr,
                         [kind |-> "scalar", items |-> <<Direct(FnAg)>>],
                         [kind |-> "method", items |-> <<Direct(FnAfReturns)>>],
                         [kind |-> "method_typeerror", items |-> <<Direct(FnBf)>>],
                         [kind |-> "method_none", items |-> <<>>]},
     external_calls_as_functions :
         {NoAttr} \cup {ListAttr(<<x>>) : x \in {Direct(FnBf), Direct(FnOrphan), NoObj}}]

InitCalls ==
    /\ arg \in CallInputs
    /\ ret = <<>>
    /\ pc = "start"
    /\ registry = <<>> /\ svc = <<>> /\ engine = <<>> /\ backend = <<>>
    /\ result = <<>> /\ hist = <<>>

ExtractCalls ==
    /\ pc = "start"
    /\ ret' = _extract_calls(arg)
    /\ pc' = "done"
    /\ UNCHANGED <<arg, svcVars>>

NextCalls == ExtractCalls

SpecCalls == InitCalls /\ [][NextCalls]_vars

\* the backend-reported call sites of a function in walk order
ReportedSites(function) ==
    _iterate_attribute(function, InternalCallAttrs)
        \o _iterate_attribute(function, ExternalCallAttrs)

Resolves(callee) == callee # NoObj /\ CallTarget(callee).contract # NoneStr

ResolvedPair(callee) ==
    FunctionIdentifier(CallTarget(callee).contract, _extract_signature(CallTarget(callee)))

\* the (contract, signature) pairs the reported sites resolve to, in walk order
ResolvedPairs(function) ==
    LET sites == ReportedSites(function)
        F[i \in 0..Len(sites)] ==
            IF i = 0 THEN <<>>
            ELSE IF Resolves(sites[i]) THEN Append(F[i - 1], ResolvedPair(sites[i]))
                 ELSE F[i - 1]
    IN  F[Len(sites)]

FirstIndex(q, x) == Min({i \in 1..Len(q) : q[i] = x})

\* C6: the stored call list holds each resolved (contract, signature) pair
\* exactly once, in order of first occurrence, and unresolved sites are
\* dropped.
C6_CallsDeduplicated ==
    pc = "done" =>
        LET pairs == ResolvedPairs(arg)
            distinct == {pairs[i] : i \in 1..Len(pairs)}
        IN  /\ {ret[i] : i \in 1..Len(ret)} = distinct
            /\ Len(ret) = Cardinality(distinct)
            /\ \A i, j \in 1..Len(ret) : i # j => ret[i] # ret[j]
            /\ \A i, j \in 1..Len(ret) :
                   i < j => FirstIndex(pairs, ret[i]) < FirstIndex(pairs, ret[j])

\* a walk with a repeated pair, an unresolved site and two distinct pairs kept
C6_Witness ==
    /\ pc = "done"
    /\ Len(ret) >= 2
    /\ Len(ResolvedPairs(arg)) > Len(ret)
    /\ Len(ReportedSites(arg)) > Len(ResolvedPairs(arg))

(***************************************************************************)
(* Outcomes: a returned value, or a raised exception with its class and    *)
(* message.  A message is the tuple of the parts its f-string joins.       *)
(***************************************************************************)
Ok(value) == [ok |-> TRUE, value |-> value]
Raise(kind, msg) == [ok |-> FALSE, kind |-> kind, msg |-> msg]

(***************************************************************************)
(* Python dicts keep insertion order: a dict is a sequence of <<key,       *)
(* value>> pairs with unique keys; assigning an existing key replaces the  *)
(* value in place.                                                         *)
(***************************************************************************)
DictHas(d, k) == \E i \in 1..Len(d) : d[i][1] = k
DictGet(d, k) == IF DictHas(d, k) THEN d[CHOOSE i \in 1..Len(d) : d[i][1] = k][2] ELSE NoObj
DictSet(d, k, v) ==
    IF DictHas(d, k)
    THEN [i \in 1..Len(d) |-> IF d[i][1] = k THEN <<k, v>> ELSE d[i]]
    ELSE Append(d, <<k, v>>)
DictValues(d) == [i \in 1..Len(d) |-> d[i][2]]
DictKeys(d) == [i \in 1..Len(d) |-> d[i][1]]

(***************************************************************************)
(* core/models.py                                                          *)
(***************************************************************************)
\* ContractInfo.get_function
ContractInfo_get_function(contract, signature) == DictGet(contract.functions, signature)

\* ProjectModel.get_contract
ProjectModel_get_contract(project, name) == DictGet(project.contracts, name)

\* ProjectModel.register_contract
register_contract(project, contract) ==
    [project EXCEPT !.contracts = DictSet(project.contracts, contract.name, contract)]

\* FunctionIdentifier.display_name
display_name(identifier) == <<identifier.contract, ".", identifier.signature>>

(***************************************************************************)
(* SlitherEngine: location, source snippet, state variables, parameters.   *)
(* A source mapping is NoObj or [filename, lines, start_column,            *)
(* end_column]; filename is NoObj (None or empty) or [absolute, full_path, *)
(* path, str]; a column is <<>> (None or missing) or <<n>>.                *)
(***************************************************************************)
\* SlitherEngine._resolve_filename; NoneStr is None
_resolve_filename(source_mapping) ==
    IF source_mapping = NoObj THEN NoneStr
    ELSE LET filename == source_mapping.filename
         IN  IF filename = NoObj THEN NoneStr
             ELSE IF Truthy(filename.absolute) THEN filename.absolute
             ELSE IF Truthy(filename.full_path) THEN filename.full_path
             ELSE IF Truthy(filename.path) THEN filename.path
             ELSE filename.str

SetOf(q) == {q[i] : i \in 1..Len(q)}

\* a slip: the reported lines are used as they come, unsorted
BuildLocationUnsorted(source_mapping) ==
    IF source_mapping = NoObj THEN NoObj
    ELSE LET filename == _resolve_filename(source_mapping)
             lines == source_mapping.lines
         IN  [file |-> IF Truthy(filename) THEN filename ELSE <<>>,
              start_line |-> IF lines # <<>> THEN lines[1] ELSE -1,
              start_column |-> IF source_mapping.start_column = <<>> THEN 1
                               ELSE source_mapping.start_column[1],
              end_line |-> IF lines # <<>> THEN lines[Len(lines)] ELSE -1,
              end_column |-> IF source_mapping.end_column = <<>> THEN 1
                             ELSE source_mapping.end_column[1]]

\* SlitherEngine._build_location
_build_location(source_mapping) ==
    IF source_mapping = NoObj THEN NoObj
    ELSE LET filename == _resolve_filename(source_mapping)
             lines == source_mapping.lines
         IN  [file |-> IF Truthy(filename) THEN filename ELSE <<>>,
              start_line |-> IF lines # <<>> THEN Min(SetOf(lines)) ELSE -1,
              start_column |-> IF source_mapping.start_column = <<>> THEN 1
                               ELSE source_mapping.start_column[1],
              end_line |-> IF lines # <<>> THEN Max(SetOf(lines)) ELSE -1,
              end_column |-> IF source_mapping.end_column = <<>> THEN 1
                             ELSE source_mapping.end_column[1]]

RECURSIVE Join(_)
Join(lines) == IF lines = <<>> THEN <<>> ELSE Head(lines) \o Join(Tail(lines))

\* lines[start_idx:end_idx] of a Python list (0-based, end exclusive, clamped)
Slice(lines, start_idx, end_idx) ==
    LET lo == IF start_idx > Len(lines) THEN Len(lines) ELSE start_idx
        hi == IF end_idx > Len(lines) THEN Len(lines) ELSE end_idx
    IN  IF hi <= lo THEN <<>> ELSE SubSeq(lines, lo + 1, hi)

\* SlitherEngine._read_source_snippet.  files maps a path to the list of its
\* lines, to "missing" (open raises FileNotFoundError) or to "denied" (open
\* raises PermissionError, which the handler does not catch).
_read_source_snippet(location, files) ==
    IF location.file = <<>> \/ location.start_line < 0 \/ location.end_line < 0
    THEN Ok(<<>>)
    ELSE LET content == DictGet(files, location.file)
         IN  IF content = NoObj \/ content = [state |-> "missing"] THEN Ok(<<>>)
             ELSE IF content = [state |-> "denied"]
             THEN Raise("PermissionError", <<"Permission denied: ", location.file>>)
             ELSE LET start_idx == IF location.start_line - 1 > 0
                                   THEN location.start_line - 1 ELSE 0
                      end_idx == IF location.end_line > start_idx + 1
                                 THEN location.end_line ELSE start_idx + 1
                  IN  Ok(Join(Slice(content.lines, start_idx, end_idx)))

\* SlitherEngine._normalize_state_variables: a variable is [canonical_name, name]
RECURSIVE _normalize_state_variables(_)
_normalize_state_variables(variables) ==
    IF variables = <<>> THEN <<>>
    ELSE LET variable == Head(variables)
             name == IF Truthy(variable.canonical_name) THEN variable.canonical_name
                     ELSE variable.name
             rest == _normalize_state_variables(Tail(variables))
         IN  IF Truthy(name) THEN <<name>> \o rest ELSE rest

\* SlitherEngine._convert_parameters: a parameter is [name, type]
_convert_parameters(function) ==
    [i \in 1..Len(function.parameters) |->
        [name |-> IF Truthy(function.parameters[i].name)
                  THEN function.parameters[i].name ELSE <<>>,
         type |-> IF Truthy(function.parameters[i].type)
                  THEN function.parameters[i].type ELSE <<>>]]

\* SlitherEngine._convert_function.  function.contract is contract.name of
\* the owning contract, or NoneStr when function.contract is None (then
\* function.contract.name raises AttributeError).
_convert_function(function, files) ==
    IF function.contract = NoneStr
    THEN Raise("AttributeError", <<"'NoneType' object has no attribute 'name'">>)
    ELSE LET location == _build_location(function.source_mapping)
             given == IF Truthy(function.source_code) THEN Strip(function.source_code)
                      ELSE <<>>
         IN  With(IF given = <<>> /\ location # NoObj
                  THEN _read_source_snippet(location, files)
                  ELSE Ok(given),
                  LAMBDA source_code :
                      IF ~source_code.ok THEN source_code
                      ELSE Ok([identifier |-> FunctionIdentifier(function.contract,
                                                  _extract_signature(function)),
                               visibility |-> GetAttr(function.visibility, <<"public">>),
                               mutability |-> IF Truthy(function.view) THEN function.view
                                              ELSE GetAttr(function.mutability, NoneStr),
                               parameters |-> _convert_parameters(function),
                               state_variables_read |->
                                   _normalize_state_variables(function.state_variables_read),
                               state_variables_written |->
                                   _normalize_state_variables(function.state_variables_written),
                               source |-> source_code.value,
                               location |-> location,
                               calls |-> _extract_calls(function)]))

\* SlitherEngine._iter_contract_functions: functions_declared unless None
_iter_contract_functions(contract) ==
    IF contract.functions_declared # NoObj THEN contract.functions_declared.items
    ELSE contract.functions

\* the loop of _convert_contract over the contract's functions
RECURSIVE ConvertFunctions(_, _, _)
ConvertFunctions(contract_info, functions, files) ==
    IF functions = <<>> THEN Ok(contract_info)
    ELSE With(_convert_function(Head(functions), files),
              LAMBDA function_info :
                  IF ~function_info.ok THEN function_info
                  ELSE With([contract_info EXCEPT !.functions =
                                DictSet(contract_info.functions,
                                        function_info.value.identifier.signature,
                                        function_info.value)],
                            LAMBDA next : ConvertFunctions(next, Tail(functions), files)))

\* SlitherEngine._convert_contract
_convert_contract(contract, files) ==
    LET filepath == _resolve_filename(contract.source_mapping)
        contract_info ==
            [name |-> contract.name,
             kind |-> GetAttr(contract.contract_kind, <<"contract">>),
             filepath |-> IF Truthy(filepath) THEN filepath
                          ELSE GetAttr(contract.source_path, <<>>),
             inheritance |-> contract.inheritance,
             functions |-> <<>>,
             raw_source |-> GetAttr(contract.source_code, NoneStr)]
    IN  ConvertFunctions(contract_info, _iter_contract_functions(contract), files)

\* SlitherEngine._collect_call_edges
CallGraphEdge(caller, callee) == [caller |-> caller, callee |-> callee]

\* a slip: only the first call of each function becomes an edge
FunctionEdgesFirstCallOnly(function) ==
    IF function.calls = <<>> THEN <<>>
    ELSE <<CallGraphEdge(function.identifier, function.calls[1])>>

FunctionEdges(function) ==
    [i \in 1..Len(function.calls) |-> CallGraphEdge(function.identifier, function.calls[i])]

RECURSIVE ContractEdges(_)
ContractEdges(functions) ==
    IF functions = <<>> THEN <<>>
    ELSE FunctionEdges(Head(functions)) \o ContractEdges(Tail(functions))

RECURSIVE ProjectEdges(_)
ProjectEdges(contracts) ==
    IF contracts = <<>> THEN <<>>
    ELSE ContractEdges(DictValues(Head(contracts).functions)) \o ProjectEdges(Tail(contracts))

_collect_call_edges(project) == ProjectEdges(DictValues(project.contracts))

(***************************************************************************)
(* The analyzer and the project on disk, as the adapter sees them:         *)
(* installed (the slither import succeeds), analysis_error (NoneStr, or    *)
(* the message of the exception the analyzer constructor raises),          *)
(* compiler_version, version (__version__), contracts and files.           *)
(***************************************************************************)
\* SlitherEngine._build_slither
_build_slither(b) ==
    IF ~b.installed
    THEN Raise("EngineError", <<"Slither engine requires the slither-analyzer package.">>)
    ELSE IF b.analysis_error # NoneStr
    THEN Raise("EngineError", <<"Failed to analyze project with Slither: ", b.analysis_error>>)
    ELSE Ok(b)

\* SlitherEngine._collect_engine_metadata
_collect_engine_metadata(slither) ==
    (IF Truthy(slither.compiler_version)
     THEN <<<<"solc_version", slither.compiler_version>>>> ELSE <<>>)
        \o <<<<"slither_version", slither.version>>>>

\* the loop of load() over slither.contracts; on an exception the local
\* project is left as far as it was populated
RECURSIVE ConvertContracts(_, _, _)
ConvertContracts(project, contracts, files) ==
    IF contracts = <<>> THEN [out |-> Ok(project), project |-> project]
    ELSE With(_convert_contract(Head(contracts), files),
              LAMBDA contract_info :
                  IF ~contract_info.ok THEN [out |-> contract_info, project |-> project]
                  ELSE With(register_contract(project, contract_info.value),
                            LAMBDA next : ConvertContracts(next, Tail(contracts), files)))

\* the local ProjectModel load() starts from; the timestamp is the ordinal
\* of the load, so that two analyses never carry the same one
NewProject(name, slither, clock) ==
    [contracts |-> <<>>,
     engine_metadata |-> <<<<"engine", <<name>>>>, <<"timestamp", <<clock>>>>>>
                             \o _collect_engine_metadata(slither)]

(***************************************************************************)
(* core/engine_base.py and SlitherEngine.  An engine is a record; the      *)
(* operations take the engine e, the backend b and the counters h and      *)
(* return [e, h, out]: the engine and counters afterwards and the outcome. *)
(***************************************************************************)
NoCapabilities == [call_graph |-> FALSE, state_modifiers |-> FALSE,
                   inheritance_resolution |-> FALSE]
DEFAULT_CAPABILITIES == [call_graph |-> TRUE, state_modifiers |-> TRUE,
                         inheritance_resolution |-> TRUE]

\* AnalysisEngine.__init__ / SlitherEngine.__init__
NewEngine(cls, solc_version) ==
    [cls |-> cls,
     name |-> IF cls = "SlitherEngine" THEN "slither" ELSE "abstract",
     solc_version |-> solc_version,
     _project_model |-> NoObj,
     _slither |-> NoObj,
     _call_graph_cache |-> NoObj]

capabilities(e) == IF e.cls = "SlitherEngine" THEN DEFAULT_CAPABILITIES ELSE NoCapabilities

CountLoad(h, ok) ==
    [h EXCEPT !.loads = @ + 1, !.loads_ok = IF ok THEN @ + 1 ELSE @]

\* the analysis of load(): the analyzer is built, then every contract is
\* converted and registered into a new local ProjectModel
Analyse(e, b, h) ==
    IF ~_build_slither(b).ok
    THEN [out |-> _build_slither(b), project |-> NoObj]
    ELSE With(NewProject(e.name, b, h.loads + 1),
              LAMBDA project : ConvertContracts(project, b.contracts, b.files))

\* a slip: the engine's fields are assigned while the contracts are still
\* being converted, so a failing conversion leaves them set
LoadStoresBeforeConverting(e, b, h) ==
    With(Analyse(e, b, h),
         LAMBDA run :
             IF run.project = NoObj
             THEN [e |-> e, h |-> CountLoad(h, FALSE), out |-> run.out]
             ELSE [e |-> [e EXCEPT !._slither = [installed |-> TRUE],
                                   !._call_graph_cache =
                                       [edges |-> _collect_call_edges(run.project)],
                                   !._project_model = run.project],
                   h |-> [CountLoad(h, run.out.ok) EXCEPT !.cache_writes = @ + 1],
                   out |-> run.out])

\* SlitherEngine.load
SlitherLoad(e, b, h) ==
    With(Analyse(e, b, h),
         LAMBDA run :
             IF ~run.out.ok
             THEN [e |-> e, h |-> CountLoad(h, FALSE), out |-> run.out]
             ELSE [e |-> [e EXCEPT !._slither = [installed |-> TRUE],
                                   !._call_graph_cache =
                                       [edges |-> _collect_call_edges(run.project)],
                                   !._project_model = run.project],
                   h |-> [CountLoad(h, TRUE) EXCEPT !.cache_writes = @ + 1],
                   out |-> Ok(run.project)])

\* AnalysisEngine.load is abstract.  The engine of class "BaseEngine" is a
\* minimal subclass that inherits everything else from AnalysisEngine: its
\* load() returns the ProjectModel of the analysis or raises, and assigns no
\* field of the engine.
BaseLoad(e, b, h) ==
    With(Analyse(e, b, h),
         LAMBDA run : [e |-> e, h |-> CountLoad(h, run.out.ok), out |-> run.out])

load(e, b, h) == IF e.cls = "SlitherEngine" THEN SlitherLoad(e, b, h) ELSE BaseLoad(e, b, h)

\* a slip: the cached model is ignored and the project is analysed anew
EnsureLoadedAlwaysLoads(e, b, h) ==
    With(load(e, b, [h EXCEPT !.ensures = @ + 1]),
         LAMBDA run :
             IF ~run.out.ok THEN run
             ELSE [e |-> [run.e EXCEPT !._project_model = run.out.value],
                   h |-> run.h, out |-> run.out])

\* AnalysisEngine.ensure_loaded
ensure_loaded(e, b, h) ==
    IF e._project_model = NoObj
    THEN With(load(e, b, [h EXCEPT !.ensures = @ + 1]),
              LAMBDA run :
                  IF ~run.out.ok THEN run
                  ELSE [e |-> [run.e EXCEPT !._project_model = run.out.value],
                        h |-> run.h, out |-> run.out])
    ELSE [e |-> e, h |-> [h EXCEPT !.ensures = @ + 1], out |-> Ok(e._project_model)]

\* AnalysisEngine.get_contract
get_contract(e, b, h, contract_name) ==
    With(ensure_loaded(e, b, h),
         LAMBDA run :
             IF ~run.out.ok THEN run
             ELSE [run EXCEPT !.out =
                      Ok(ProjectModel_get_contract(run.out.value, contract_name))])

\* a slip: the contract is used without the None check
GetFunctionAssumesContract(e, b, h, identifier) ==
    With(get_contract(e, b, h, identifier.contract),
         LAMBDA run :
             IF ~run.out.ok THEN run
             ELSE IF run.out.value = NoObj
             THEN [run EXCEPT !.out =
                      Raise("AttributeError",
                            <<"'NoneType' object has no attribute 'get_function'">>)]
             ELSE [run EXCEPT !.out =
                      Ok(ContractInfo_get_function(run.out.value, identifier.signature))])

\* AnalysisEngine.get_function
get_function(e, b, h, identifier) ==
    With(get_contract(e, b, h, identifier.contract),
         LAMBDA run :
             IF ~run.out.ok THEN run
             ELSE IF run.out.value = NoObj THEN run
             ELSE [run EXCEPT !.out =
                      Ok(ContractInfo_get_function(run.out.value, identifier.signature))])

\* AnalysisEngine.iter_contracts
iter_contracts(e, b, h) ==
    With(ensure_loaded(e, b, h),
         LAMBDA run :
             IF ~run.out.ok THEN run
             ELSE [run EXCEPT !.out = Ok([items |-> DictValues(run.out.value.contracts)])])

\* _iter_call_graph_impl: SlitherEngine's override, else AnalysisEngine's
_iter_call_graph_impl(e) ==
    IF e.cls = "SlitherEngine"
    THEN IF e._call_graph_cache = NoObj
         THEN Raise("EngineError", <<"Call graph not available before loading the project">>)
         ELSE Ok(e._call_graph_cache)
    ELSE Raise("EngineError", <<"Call graph iteration not implemented by this engine">>)

\* a slip: the capability flag is not consulted
IterCallGraphUngated(e) == _iter_call_graph_impl(e)

\* AnalysisEngine.iter_call_graph
iter_call_graph(e) ==
    IF ~capabilities(e).call_graph
    THEN Raise("EngineError",
               <<"Engine ", e.name, " does not support call graph generation">>)
    ELSE _iter_call_graph_impl(e)

(***************************************************************************)
(* Sample projects the analyzer may report.                                *)
(***************************************************************************)
fileA == <<"/", "A">>
fileB == <<"/", "B">>

SourceMapping(file, lines) ==
    [filename |-> [absolute |-> file, full_path |-> NoneStr, path |-> NoneStr, str |-> file],
     lines |-> lines, start_column |-> <<>>, end_column |-> <<>>]

RawFunction(owner, signature_str, canonical_name, source_mapping, source_code, internal, external) ==
    [contract |-> owner,
     signature_str |-> signature_str,
     canonical_name |-> canonical_name,
     name |-> <<"n">>,
     source_mapping |-> source_mapping,
     source_code |-> source_code,
     visibility |-> <<"public">>,
     view |-> NoneStr,
     mutability |-> MissingAttr,
     parameters |-> <<[name |-> <<"a">>, type |-> <<"u">>]>>,
     state_variables_read |-> <<[canonical_name |-> NoneStr, name |-> <<"v">>]>>,
     state_variables_written |-> <<>>,
     all_internal_calls |-> ListAttr(internal),
     internal_calls |-> NoAttr,
     functions_called |-> NoAttr,
     external_calls_as_functions |-> ListAttr(external)]

RawContract(name, file, functions) ==
    [name |-> name,
     contract_kind |-> MissingAttr,
     source_mapping |-> SourceMapping(file, <<1>>),
     source_path |-> MissingAttr,
     source_code |-> MissingAttr,
     inheritance |-> <<>>,
     functions_declared |-> [items |-> functions],
     functions |-> <<>>]

\* A.f() returns(u) calls A.g twice, B.f and an unresolved site; its source
\* is read from lines 2..3 of /A.  A.g carries its source text.  B.f has no
\* source mapping and calls A.g externally.
RawAf == RawFunction(cA, sigF \o marker \o <<"(", "u", ")">>, MissingAttr,
                     SourceMapping(fileA, <<3, 2>>), NoneStr,
                     <<Direct(FnAg), Direct(FnAg), Direct(FnBf), Direct(FnOrphan)>>, <<>>)
RawAg == RawFunction(cA, NoneStr, cA \o <<".">> \o sigG,
                     SourceMapping(fileA, <<>>), <<" ", "g", " ">>, <<>>, <<>>)
RawBf == RawFunction(cB, sigF, MissingAttr, NoObj, NoneStr, <<>>, <<Direct(FnAg)>>)
RawBg == RawFunction(cB, sigG, MissingAttr, SourceMapping(fileB, <<1>>), NoneStr,
                     <<Direct(FnBf)>>, <<>>)

FileLines == [lines |-> << <<"1", "\n">>, <<"2", "\n">>, <<"3", "\n">> >>]

ProjectToken ==
    [installed |-> TRUE, analysis_error |-> NoneStr,
     compiler_version |-> <<"8">>, version |-> NoneStr,
     contracts |-> <<RawContract(cA, fileA, <<RawAf, RawAg>>),
                     RawContract(cB, fileB, <<RawBf>>)>>,
     files |-> << <<fileA, FileLines>> >>]

ProjectLibrary ==
    [installed |-> TRUE, analysis_error |-> NoneStr,
     compiler_version |-> NoneStr, version |-> NoneStr,
     contracts |-> <<RawContract(cB, fileB, <<RawBg, RawBf>>)>>,
     files |-> << <<fileB, [state |-> "missing"]>> >>]

\* /B cannot be read: the conversion of B.g fails after A was registered
ProjectUnreadable ==
    [ProjectToken EXCEPT !.contracts = Append(@, RawContract(cB, fileB, <<RawBg>>)),
                         !.files = Append(@, <<fileB, [state |-> "denied"]>>)]

NotInstalled == [ProjectToken EXCEPT !.installed = FALSE]

DoesNotCompile == [ProjectToken EXCEPT !.analysis_error = <<"solc failed">>]

Backends == {ProjectToken, ProjectLibrary, ProjectUnreadable, NotInstalled, DoesNotCompile}

ContractNames == {cA, cB}
Signatures == {sigF, sigG}

(***************************************************************************)
(* One engine instance driven through its public operations.               *)
(***************************************************************************)
NoHist ==
    [loads |-> 0, loads_ok |-> 0, ensures |-> 0, cache_writes |-> 0, ops |-> 0,
     unregistered |-> FALSE]

InitEngine ==
    /\ engine \in {NewEngine(cls, NoneStr) : cls \in {"SlitherEngine", "BaseEngine"}}
    /\ backend \in Backends
    /\ hist = NoHist
    /\ result = [op |-> "new"]
    /\ registry = <<>> /\ svc = <<>>
    /\ arg = <<>> /\ ret = <<>> /\ pc = "engine"

\* the outcome [e, h, out] of an engine operation becomes the next state
EngineDone(op, run) ==
    /\ engine' = run.e
    /\ hist' = [run.h EXCEPT !.ops = @ + 1]
    /\ result' = [op |-> op, out |-> run.out]
    /\ UNCHANGED <<registry, svc, backend, pureVars>>

EngineLoad ==
    /\ hist.ops < MaxOps
    /\ \E run \in {load(engine, backend, hist)} : EngineDone("load", run)

EngineEnsureLoaded ==
    /\ hist.ops < MaxOps
    /\ \E run \in {ensure_loaded(engine, backend, hist)} : EngineDone("ensure_loaded", run)

EngineGetContract ==
    /\ hist.ops < MaxOps
    /\ \E name \in ContractNames :
           \E run \in {get_contract(engine, backend, hist, name)} :
               EngineDone("get_contract", run)

EngineGetFunction ==
    /\ hist.ops < MaxOps
    /\ \E c \in ContractNames, g \in Signatures :
           \E run \in {get_function(engine, backend, hist, FunctionIdentifier(c, g))} :
               EngineDone("get_function", run)

EngineIterContracts ==
    /\ hist.ops < MaxOps
    /\ \E run \in {iter_contracts(engine, backend, hist)} : EngineDone("iter_contracts", run)

EngineIterCallGraph ==
    /\ hist.ops < MaxOps
    /\ EngineDone("iter_call_graph",
                  [e |-> engine, h |-> hist, out |-> iter_call_graph(engine)])

\* the project on disk or the installation changes between two operations
ProjectChanges ==
    /\ hist.ops < MaxOps
    /\ backend' \in Backends \ {backend}
    /\ hist' = [hist EXCEPT !.ops = @ + 1]
    /\ result' = [op |-> "project_changes"]
    /\ UNCHANGED <<registry, svc, engine, pureVars>>

NextEngine ==
    \/ EngineLoad
    \/ EngineEnsureLoaded
    \/ EngineGetContract
    \/ EngineGetFunction
    \/ EngineIterContracts
    \/ EngineIterCallGraph
    \/ ProjectChanges

SpecEngine == InitEngine /\ [][NextEngine]_vars

(***************************************************************************)
(* One engine instance on which only ensure_loaded is called, while the    *)
(* project on disk may change between the calls.                           *)
(***************************************************************************)
NextEnsure == EngineEnsureLoaded \/ ProjectChanges

SpecEnsure == InitEngine /\ [][NextEnsure]_vars

\* C1 as stated: over any sequence of ensure_loaded calls, failed attempts
\* included, load() is invoked at most once.
C1_LoadInvokedAtMostOnce == hist.loads <= 1

\* C1 amended: load() succeeds at most once; an ensure_loaded call made after
\* a successful load returns the cached ProjectModel and does not invoke
\* load(); a call made while nothing is cached invokes load() once more.
C1_LoadSucceedsAtMostOnce ==
    /\ [](hist.loads_ok <= 1)
    /\ [][hist'.ensures > hist.ensures =>
             IF engine._project_model # NoObj
             THEN /\ hist'.loads = hist.loads
                  /\ result'.out = Ok(engine._project_model)
                  /\ engine' = engine
             ELSE hist'.loads = hist.loads + 1]_vars

\* a failed attempt, then a successful load, then a call served from the cache
C1_Witness ==
    /\ hist.ensures >= 3
    /\ hist.loads = 2
    /\ hist.loads_ok = 1
    /\ result.op = "ensure_loaded"
    /\ result.out = Ok(engine._project_model)

(***************************************************************************)
(* Claims on the engine's public operations.                               *)
(***************************************************************************)
\* C8 as stated: iter_call_graph fails with an Engine failure if the
\* call_graph capability is false and otherwise returns an edge sequence.
C8_CapableEngineReturnsEdges ==
    result.op = "iter_call_graph" =>
        IF ~capabilities(engine).call_graph
        THEN ~result.out.ok /\ result.out.kind = "EngineError"
        ELSE result.out.ok

\* C8 amended: iter_call_graph fails with an Engine failure if the capability
\* is false, and also if no load has completed on the engine; otherwise it
\* returns the cached edge sequence, which is the one computed from the
\* cached ProjectModel by the last completed load, and leaves it unchanged.
C8_LoadedCapableEngineReturnsCache ==
    result.op = "iter_call_graph" =>
        IF ~capabilities(engine).call_graph
        THEN result.out = Raise("EngineError",
                 <<"Engine ", engine.name, " does not support call graph generation">>)
        ELSE IF hist.cache_writes = 0
        THEN /\ ~result.out.ok
             /\ result.out.kind = "EngineError"
             /\ engine._call_graph_cache = NoObj
        ELSE /\ result.out = Ok(engine._call_graph_cache)
             /\ engine._call_graph_cache =
                    [edges |-> _collect_call_edges(engine._project_model)]

\* a loaded engine hands out a call graph of several edges
C8_Witness ==
    /\ result.op = "iter_call_graph"
    /\ result.out.ok
    /\ Len(result.out.value.edges) >= 2
    /\ hist.loads_ok >= 1

\* the contracts of every project whose conversion completes
CompleteConversions ==
    {run.project.contracts :
        run \in {r \in {ConvertContracts([contracts |-> <<>>], b.contracts, b.files) :
                            b \in Backends} : r.out.ok}}

\* C9: a load() that fails returns no ProjectModel and leaves the engine's
\* cached project model and call-graph cache as they were (unset, if no load
\* succeeded before); a cached or returned ProjectModel is never a partly
\* converted one.
C9_LoadAllOrNothing ==
    /\ [][(hist'.loads > hist.loads /\ hist'.loads_ok = hist.loads_ok) =>
             /\ ~result'.out.ok
             /\ engine'._project_model = engine._project_model
             /\ engine'._call_graph_cache = engine._call_graph_cache]_vars
    /\ [](hist.loads_ok = 0 =>
             engine._project_model = NoObj /\ engine._call_graph_cache = NoObj)
    /\ [](engine._project_model # NoObj =>
             engine._project_model.contracts \in CompleteConversions)
    /\ []((result.op \in {"load", "ensure_loaded"} /\ result.out.ok) =>
             result.out.value.contracts \in CompleteConversions)

\* a load that failed while converting the second contract: the first one was
\* already registered in the local model, and nothing is cached
C9_Witness ==
    /\ result.op = "load"
    /\ ~result.out.ok
    /\ result.out.kind = "PermissionError"
    /\ backend = ProjectUnreadable
    /\ engine.cls = "SlitherEngine"
    /\ engine._project_model = NoObj
    /\ engine._call_graph_cache = NoObj

(***************************************************************************)
(* engines/registry.py: the process-wide ENGINE_REGISTRY.  A registration  *)
(* is [name, factory, description, capabilities]; the factory is the       *)
(* engine class.                                                           *)
(***************************************************************************)
EngineNames == {"slither", "mock"}
EngineClasses == {"SlitherEngine", "BaseEngine"}

EngineRegistration(name, factory) ==
    [name |-> name, factory |-> factory, description |-> "",
     capabilities |-> IF factory = "SlitherEngine" THEN DEFAULT_CAPABILITIES ELSE NoObj]

\* a slip: an entry that exists is never replaced, override or not
RegisterNeverReplaces(engines, registration, override) ==
    IF engines[registration.name] # NoObj
    THEN [engines |-> engines,
          out |-> IF override THEN Ok(NoObj)
                  ELSE Raise("ValueError",
                             <<"Engine ", registration.name, " already registered">>)]
    ELSE [engines |-> [engines EXCEPT ![registration.name] = registration],
          out |-> Ok(NoObj)]

\* EngineRegistry.register
register(engines, registration, override) ==
    IF engines[registration.name] # NoObj /\ ~override
    THEN [engines |-> engines,
          out |-> Raise("ValueError", <<"Engine ", registration.name, " already registered">>)]
    ELSE [engines |-> [engines EXCEPT ![registration.name] = registration],
          out |-> Ok(NoObj)]

\* a slip: an unknown name resolves to the default engine
ResolveEngineDefault(engines, name) ==
    IF engines[name] = NoObj
    THEN Ok(engines["slither"])
    ELSE Ok(engines[name])

\* EngineRegistry.get, called through resolve_engine
resolve_engine(engines, name) ==
    IF engines[name] = NoObj
    THEN Raise("KeyError", <<"Engine ", name, " is not registered">>)
    ELSE Ok(engines[name])

\* the registry once the package is imported: slither_engine registers itself
ImportedRegistry ==
    [name \in EngineNames |->
        IF name = "slither" THEN EngineRegistration("slither", "SlitherEngine") ELSE NoObj]

(***************************************************************************)
(* services/query.py: QueryService.  The service is the record s =         *)
(* [engine_name, engine_kwargs, _project]; its _engine is the engine e.    *)
(* The operations return [s, e, h, out].  A wrapped exception keeps the    *)
(* exception it was raised from in `cause`.                                *)
(***************************************************************************)
RaiseFrom(kind, msg, cause) == [ok |-> FALSE, kind |-> kind, msg |-> msg, cause |-> cause]

\* the failure _ensure_engine raises for a name the registry does not hold
NotRegistered(engine_name) ==
    RaiseFrom("QueryError", <<"Engine ", engine_name, " is not registered">>,
              Raise("KeyError", <<"Engine ", engine_name, " is not registered">>))

\* QueryService.__init__
NewService(engine_name, engine_kwargs) ==
    [engine_name |-> engine_name, engine_kwargs |-> engine_kwargs, _project |-> NoObj]

\* the keyword parameters the engine constructors accept
FactoryKeywords == {"solc_version"}

Factory(registration, engine_kwargs) ==
    IF ~(engine_kwargs \subseteq FactoryKeywords)
    THEN Raise("TypeError", <<"__init__() got an unexpected keyword argument">>)
    ELSE Ok(NewEngine(registration.factory,
                      IF "solc_version" \in engine_kwargs THEN <<"8">> ELSE NoneStr))

\* a slip: the engine is constructed anew on every call
EnsureEngineAlwaysConstructs(s, e, engines) ==
    With(resolve_engine(engines, s.engine_name),
         LAMBDA registration :
             IF ~registration.ok
             THEN [e |-> e,
                   out |-> RaiseFrom("QueryError",
                               <<"Engine ", s.engine_name, " is not registered">>,
                               registration)]
             ELSE With(Factory(registration.value, s.engine_kwargs),
                       LAMBDA made :
                           IF ~made.ok
                           THEN [e |-> e,
                                 out |-> RaiseFrom("QueryError",
                                     <<"Engine ", s.engine_name,
                                       " does not accept provided parameters: ", made.msg>>,
                                     made)]
                           ELSE [e |-> made.value, out |-> made]))

\* QueryService._ensure_engine
_ensure_engine(s, e, engines) ==
    IF e # NoObj THEN [e |-> e, out |-> Ok(e)]
    ELSE With(resolve_engine(engines, s.engine_name),
              LAMBDA registration :
                  IF ~registration.ok
                  THEN [e |-> e,
                        out |-> RaiseFrom("QueryError",
                                    <<"Engine ", s.engine_name, " is not registered">>,
                                    registration)]
                  ELSE With(Factory(registration.value, s.engine_kwargs),
                            LAMBDA made :
                                IF ~made.ok
                                THEN [e |-> e,
                                      out |-> RaiseFrom("QueryError",
                                          <<"Engine ", s.engine_name,
                                            " does not accept provided parameters: ", made.msg>>,
                                          made)]
                                ELSE [e |-> made.value, out |-> made]))

\* except EngineError as exc: raise QueryError(str(exc)) from exc
WrapEngineError(out) ==
    IF ~out.ok /\ out.kind = "EngineError"
    THEN RaiseFrom("QueryError", out.msg, out)
    ELSE out

\* QueryService._ensure_project
_ensure_project(s, e, engines, b, h) ==
    IF s._project # NoObj THEN [s |-> s, e |-> e, h |-> h, out |-> Ok(s._project)]
    ELSE With(_ensure_engine(s, e, engines),
              LAMBDA made :
                  IF ~made.out.ok THEN [s |-> s, e |-> made.e, h |-> h, out |-> made.out]
                  ELSE With(ensure_loaded(made.e, b, h),
                            LAMBDA run :
                                IF ~run.out.ok
                                THEN [s |-> s, e |-> run.e, h |-> run.h,
                                      out |-> WrapEngineError(run.out)]
                                ELSE [s |-> [s EXCEPT !._project = run.out.value],
                                      e |-> run.e, h |-> run.h, out |-> run.out]))

\* QueryService.list_contracts
list_contracts(s, e, engines, b, h) ==
    With(_ensure_project(s, e, engines, b, h),
         LAMBDA run :
             IF ~run.out.ok THEN run
             ELSE [run EXCEPT !.out =
                      Ok([items |-> [i \in 1..Len(run.out.value.contracts) |->
                                        run.out.value.contracts[i][2].name]])])

\* QueryService.get_function
svc_get_function(s, e, engines, b, h, contract, function_signature) ==
    With(_ensure_engine(s, e, engines),
         LAMBDA made :
             IF ~made.out.ok THEN [s |-> s, e |-> made.e, h |-> h, out |-> made.out]
             ELSE With(get_function(made.e, b, h,
                                    FunctionIdentifier(contract, function_signature)),
                       LAMBDA run :
                           IF ~run.out.ok
                           THEN [s |-> s, e |-> run.e, h |-> run.h, out |-> run.out]
                           ELSE IF run.out.value = NoObj
                           THEN [s |-> s, e |-> run.e, h |-> run.h,
                                 out |-> Raise("QueryError",
                                     <<"Function ", function_signature,
                                       " not found in contract ", contract>>)]
                           ELSE [s |-> s, e |-> run.e, h |-> run.h, out |-> run.out]))

\* QueryService._format_path: Path(raw_path).resolve(strict=False) makes a
\* relative path absolute under the working directory
WorkingDirectory == <<"/", "w", "/">>

_format_path(raw_path) ==
    IF raw_path = <<>> THEN raw_path
    ELSE IF Head(raw_path) = "/" THEN raw_path
    ELSE WorkingDirectory \o raw_path

\* the entry of one call in FunctionInfo.as_dict
CallPayload(call, project) ==
    LET callee_contract == ProjectModel_get_contract(project, call.contract)
        callee_info == IF callee_contract = NoObj THEN NoObj
                       ELSE ContractInfo_get_function(callee_contract, call.signature)
    IN  IF callee_info # NoObj /\ callee_info.location # NoObj
           /\ callee_info.location.file # <<>>
        THEN [module |-> call.contract, function |-> call.signature,
              file |-> _format_path(callee_info.location.file)]
        ELSE [module |-> call.contract, function |-> call.signature]

\* FunctionInfo.as_dict, with QueryService._format_path as the path_formatter
as_dict(function, project) ==
    [contract |-> function.identifier.contract,
     function |-> function.identifier.signature,
     source |-> function.source,
     location |-> IF function.location = NoObj THEN NoObj
                  ELSE [file |-> IF function.location.file # <<>>
                                 THEN _format_path(function.location.file)
                                 ELSE function.location.file,
                        start_line |-> function.location.start_line,
                        end_line |-> function.location.end_line],
     parameter |-> function.parameters,
     calls |-> [i \in 1..Len(function.calls) |-> CallPayload(function.calls[i], project)]]

\* QueryService.get_function_source
get_function_source(s, e, engines, b, h, contract, function_signature) ==
    With(_ensure_project(s, e, engines, b, h),
         LAMBDA loaded :
             IF ~loaded.out.ok THEN loaded
             ELSE With(svc_get_function(loaded.s, loaded.e, engines, b, loaded.h,
                                        contract, function_signature),
                       LAMBDA run :
                           IF ~run.out.ok THEN run
                           ELSE [run EXCEPT !.out =
                                    Ok(as_dict(run.out.value, loaded.out.value))]))

\* CallGraphRecord.from_edge and CallGraphRecord.as_dict
CallGraphRecord(edge) ==
    [caller |-> display_name(edge.caller), callee |-> display_name(edge.callee)]

\* a slip: an edge passes when either filter matches
FilterEdgesEitherFilter(edges, caller_contract, caller_signature) ==
    LET F[i \in 0..Len(edges)] ==
            IF i = 0 THEN <<>>
            ELSE IF Truthy(caller_contract) /\ Truthy(caller_signature)
                    /\ edges[i].caller.contract # caller_contract
                    /\ edges[i].caller.signature # caller_signature
                 THEN F[i - 1]
            ELSE IF Truthy(caller_contract) /\ ~Truthy(caller_signature)
                    /\ edges[i].caller.contract # caller_contract
                 THEN F[i - 1]
            ELSE IF ~Truthy(caller_contract) /\ Truthy(caller_signature)
                    /\ edges[i].caller.signature # caller_signature
                 THEN F[i - 1]
            ELSE Append(F[i - 1], CallGraphRecord(edges[i]))
    IN  F[Len(edges)]

\* the loop of QueryService.iter_call_graph, materialized by get_call_graph
FilterEdges(edges, caller_contract, caller_signature) ==
    LET F[i \in 0..Len(edges)] ==
            IF i = 0 THEN <<>>
            ELSE IF Truthy(caller_contract) /\ edges[i].caller.contract # caller_contract
                 THEN F[i - 1]
            ELSE IF Truthy(caller_signature) /\ edges[i].caller.signature # caller_signature
                 THEN F[i - 1]
            ELSE Append(F[i - 1], CallGraphRecord(edges[i]))
    IN  F[Len(edges)]

\* QueryService.iter_call_graph consumed to the end, as get_call_graph does
get_call_graph(s, e, engines, b, h, caller_contract, caller_signature) ==
    With(_ensure_project(s, e, engines, b, h),
         LAMBDA loaded :
             IF ~loaded.out.ok THEN loaded
             ELSE With(WrapEngineError(iter_call_graph(loaded.e)),
                       LAMBDA edges :
                           IF ~edges.ok THEN [loaded EXCEPT !.out = edges]
                           ELSE [loaded EXCEPT !.out =
                                    Ok([items |-> FilterEdges(edges.value.edges,
                                            caller_contract, caller_signature)])]))

(***************************************************************************)
(* The service specification: one QueryService over its whole lifetime.    *)
(* The caller may run any public operation in any order; meanwhile other   *)
(* code may register engines and the project on disk may change.           *)
(***************************************************************************)
QueryOps == {"list_contracts", "get_function", "get_function_source", "get_call_graph"}

KeywordChoices == {{}, {"solc_version"}, {"optimize"}}

ContractFilters == {NoneStr, cA}
SignatureFilters == {NoneStr, sigF}

Init ==
    /\ registry = ImportedRegistry
    /\ svc \in {NewService(name, kw) : name \in EngineNames, kw \in KeywordChoices}
    /\ engine = NoObj
    /\ backend \in Backends
    /\ hist = NoHist
    /\ result = [op |-> "new"]
    /\ arg = <<>> /\ ret = <<>> /\ pc = "service"

ServiceDone(op, args, run) ==
    /\ svc' = run.s
    /\ engine' = run.e
    /\ hist' = [run.h EXCEPT !.ops = @ + 1,
                             !.unregistered = @ \/ run.out = NotRegistered(svc.engine_name)]
    /\ result' = [op |-> op, out |-> run.out]
    /\ arg' = args
    /\ UNCHANGED <<registry, backend, ret, pc>>

ListContracts ==
    /\ hist.ops < MaxCalls
    /\ \E run \in {list_contracts(svc, engine, registry, backend, hist)} :
          ServiceDone("list_contracts", <<>>, run)

GetFunction ==
    /\ hist.ops < MaxCalls
    /\ \E contract \in ContractNames, function_signature \in Signatures :
          \E run \in {svc_get_function(svc, engine, registry, backend, hist,
                                       contract, function_signature)} :
              ServiceDone("get_function", <<contract, function_signature>>, run)

GetFunctionSource ==
    /\ hist.ops < MaxCalls
    /\ \E contract \in ContractNames, function_signature \in Signatures :
          \E run \in {get_function_source(svc, engine, registry, backend, hist,
                                          contract, function_signature)} :
              ServiceDone("get_function_source", <<contract, function_signature>>, run)

GetCallGraph ==
    /\ hist.ops < MaxCalls
    /\ \E caller_contract \in ContractFilters, caller_signature \in SignatureFilters :
          \E run \in {get_call_graph(svc, engine, registry, backend, hist,
                                     caller_contract, caller_signature)} :
              ServiceDone("get_call_graph", <<caller_contract, caller_signature>>, run)

\* engines/registry.py register_engine, called by any module of the process
RegisterEngine ==
    /\ hist.ops < MaxCalls
    /\ \E name \in EngineNames, factory \in EngineClasses, override \in BOOLEAN :
          \E run \in {register(registry, EngineRegistration(name, factory), override)} :
              /\ registry' = run.engines
              /\ result' = [op |-> "register_engine", out |-> run.out]
              /\ hist' = [hist EXCEPT !.ops = @ + 1]
              /\ UNCHANGED <<svc, engine, backend, pureVars>>

\* the project on disk is edited between two calls of the service
SourcesChange ==
    /\ hist.ops < MaxCalls
    /\ ProjectChanges

Next ==
    \/ ListContracts
    \/ GetFunction
    \/ GetFunctionSource
    \/ GetCallGraph
    \/ RegisterEngine
    \/ SourcesChange

Spec == Init /\ [][Next]_vars

\* C2: every public QueryService operation either succeeds or raises a Query
\* failure; a Registry failure (KeyError) or an Engine failure (EngineError)
\* raised underneath never reaches the caller as its own kind, and the Query
\* failure that wraps one carries its message text.
C2_OnlyQueryFailures ==
    (result.op \in QueryOps /\ ~result.out.ok) =>
        /\ result.out.kind \notin {"KeyError", "EngineError"}
        /\ ("cause" \in DOMAIN result.out /\ result.out.cause.kind \in {"KeyError", "EngineError"})
              => (result.out.kind = "QueryError" /\ result.out.msg = result.out.cause.msg)

\* C4 as stated: once a query has failed because the engine name is not
\* registered, every later query of the service fails with that same failure.
C4_FailsForEver ==
    (hist.unregistered /\ result.op \in QueryOps) =>
        result.out = NotRegistered(svc.engine_name)

\* C4: a query made while the engine name is not in the registry raises the
\* Query failure "Engine <name> is not registered" and leaves the service as
\* it was, holding no engine and no project model; so does every later query
\* made while the name is still not registered.
C4_UnregisteredAlwaysFails ==
    /\ [](hist.unregistered => (registry[svc.engine_name] = NoObj =>
                                  (engine = NoObj /\ svc._project = NoObj)))
    /\ [][(result'.op \in QueryOps /\ hist'.ops # hist.ops
           /\ registry[svc.engine_name] = NoObj) =>
              /\ result'.out = NotRegistered(svc.engine_name)
              /\ engine' = NoObj /\ engine = NoObj
              /\ svc' = svc /\ svc._project = NoObj]_vars

\* two queries in a row refused because the name "mock" is not registered
C4_Witness ==
    /\ hist.ops = 2 /\ hist.loads = 0
    /\ hist.unregistered
    /\ result.op \in QueryOps
    /\ result.out = NotRegistered("mock")
    /\ registry["mock"] = NoObj
    /\ engine = NoObj /\ svc._project = NoObj

\* C5: the payload of get_function_source for an existing function holds the
\* serialized function fields and a metadata entry whose engine field is the
\* name of the engine the service was created with.
C5_PayloadHasEngineMetadata ==
    (result.op = "get_function_source" /\ result.out.ok) =>
        /\ {"function", "source", "location", "calls"} \subseteq DOMAIN result.out.value
        /\ result.out.value.function = arg[2]
        /\ "metadata" \in DOMAIN result.out.value
        /\ result.out.value.metadata.engine = svc.engine_name

\* C10 as stated: over the lifetime of one service the engine's ensure_loaded
\* is triggered at most once.
C10_EnsureLoadedAtMostOnce == hist.ensures <= 1

\* C10: the service constructs its engine lazily, on the first operation
\* that needs it; load() succeeds at most once in the service's lifetime, and
\* once the service has cached the ProjectModel every later operation is
\* served from that same model without another load().  (ensure_loaded itself
\* is entered again by every function lookup and after every failed load.)
C10_LoadedOnceThenCached ==
    /\ [](engine # NoObj => hist.ensures >= 1)
    /\ [](hist.loads_ok <= 1)
    /\ [](svc._project # NoObj => svc._project = engine._project_model)
    /\ [][svc._project # NoObj =>
             /\ hist'.loads = hist.loads
             /\ svc' = svc /\ engine' = engine]_vars

\* a service that has cached its model and answered a later lookup from it,
\* ensure_loaded having been entered more than once
C10_Witness ==
    /\ svc._project # NoObj
    /\ hist.loads = 1 /\ hist.loads_ok = 1
    /\ hist.ensures >= 3
    /\ result.op = "get_function_source" /\ result.out.ok

(***************************************************************************)
(* The filter specification: the filter loop of iter_call_graph applied to *)
(* every edge sequence an engine may hand over, of up to MaxEdges edges,   *)
(* with each filter omitted (None), empty, or a name.                      *)
(***************************************************************************)
EdgePool ==
    {CallGraphEdge(FunctionIdentifier(c, s), FunctionIdentifier(cB, callee)) :
        c \in ContractNames, s \in Signatures, callee \in Signatures}

FilterValues(names) == {NoneStr, <<>>} \cup names

InitFilter ==
    /\ arg \in [edges : SeqsUpTo(EdgePool, MaxEdges),
                caller_contract : FilterValues(ContractNames),
                caller_signature : FilterValues(Signatures)]
    /\ ret = <<>>
    /\ pc = "start"
    /\ registry = <<>> /\ svc = <<>> /\ engine = <<>> /\ backend = <<>>
    /\ result = <<>> /\ hist = <<>>

FilterCallGraph ==
    /\ pc = "start"
    /\ ret' = <<FilterEdges(arg.edges, arg.caller_contract, arg.caller_signature)>>
    /\ pc' = "filtered"
    /\ UNCHANGED <<arg, svcVars>>

NextFilter == FilterCallGraph

SpecFilter == InitFilter /\ [][NextFilter]_vars

Records(edges) == [i \in 1..Len(edges) |-> CallGraphRecord(edges[i])]

\* C3 as stated: the result is exactly the edges whose caller contract is c,
\* if c is given (not None), and whose caller signature is s, if s is given,
\* in the original order.
C3_GivenFiltersSelect ==
    pc = "filtered" =>
        LET Keep(e) ==
                /\ arg.caller_contract # NoneStr => e.caller.contract = arg.caller_contract
                /\ arg.caller_signature # NoneStr => e.caller.signature = arg.caller_signature
        IN  ret[1] = Records(SelectSeq(arg.edges, Keep))

\* C3: the result is exactly the edges whose caller contract is c, if c is
\* given as a non-empty string, and whose caller signature is s, if s is
\* given as a non-empty string, in the original relative order; a filter that
\* is omitted or empty selects nothing, and with both so the result is all of
\* E in its order.
C3_NonEmptyFiltersSelect ==
    pc = "filtered" =>
        LET Keep(e) ==
                /\ Truthy(arg.caller_contract) => e.caller.contract = arg.caller_contract
                /\ Truthy(arg.caller_signature) => e.caller.signature = arg.caller_signature
        IN  /\ ret[1] = Records(SelectSeq(arg.edges, Keep))
            /\ (~Truthy(arg.caller_contract) /\ ~Truthy(arg.caller_signature))
                  => ret[1] = Records(arg.edges)

\* both filters given, and they drop an edge standing between two kept ones
C3_Witness ==
    /\ pc = "filtered"
    /\ Truthy(arg.caller_contract) /\ Truthy(arg.caller_signature)
    /\ Len(arg.edges) = 3 /\ Len(ret[1]) = 2
    /\ ret[1][1] = CallGraphRecord(arg.edges[1])
    /\ ret[1][2] = CallGraphRecord(arg.edges[3])
    /\ ret[1][1] # ret[1][2]
    /\ arg.edges[2].caller.contract = arg.caller_contract

(***************************************************************************)
(* The lookup specification: function lookups on one service and on its    *)
(* engine, by names that are present, absent, or differ only in case.      *)
(***************************************************************************)
LookupContracts == ContractNames \cup {<<"a">>}
LookupSignatures == Signatures \cup {<<"F", "(", ")">>}

LookupSource ==
    /\ hist.ops < MaxLookups
    /\ \E contract \in LookupContracts, function_signature \in LookupSignatures :
          \E run \in {get_function_source(svc, engine, registry, backend, hist,
                                          contract, function_signature)} :
              ServiceDone("get_function_source", <<contract, function_signature>>, run)

\* AnalysisEngine.get_function called on the engine the service holds
LookupFunction ==
    /\ hist.ops < MaxLookups
    /\ engine # NoObj
    /\ \E contract \in LookupContracts, function_signature \in LookupSignatures :
          \E run \in {get_function(engine, backend, hist,
                                   FunctionIdentifier(contract, function_signature))} :
              /\ engine' = run.e
              /\ hist' = [run.h EXCEPT !.ops = @ + 1]
              /\ result' = [op |-> "engine.get_function", out |-> run.out]
              /\ arg' = <<contract, function_signature>>
              /\ UNCHANGED <<registry, svc, backend, ret, pc>>

SpecLookup == Init /\ [][LookupSource \/ LookupFunction]_vars

\* the function stored under exactly this signature in the contract stored
\* under exactly this name, as a set of zero or one element
StoredUnder(project, contract, signature) ==
    UNION {{project.contracts[i][2].functions[j][2] :
               j \in {k \in 1..Len(project.contracts[i][2].functions) :
                         project.contracts[i][2].functions[k][1] = signature}} :
           i \in {k \in 1..Len(project.contracts) : project.contracts[k][1] = contract}}

\* C11: on a loaded project the engine's get_function returns None, without
\* raising, when the contract name or the signature is absent (exact match),
\* and the stored function when both are present; get_function_source then
\* fails with the Query failure "Function <signature> not found in contract
\* <contract>" in the first case and returns the stored function's payload in
\* the second.
C11_LookupFindsExactly ==
    /\ (result.op = "engine.get_function" /\ engine._project_model # NoObj) =>
          LET stored == StoredUnder(engine._project_model, arg[1], arg[2])
          IN  IF stored = {} THEN result.out = Ok(NoObj)
              ELSE result.out.ok /\ stored = {result.out.value}
    /\ (result.op = "get_function_source" /\ svc._project # NoObj) =>
          LET stored == StoredUnder(svc._project, arg[1], arg[2])
          IN  IF stored = {}
              THEN result.out = Raise("QueryError",
                       <<"Function ", arg[2], " not found in contract ", arg[1]>>)
              ELSE /\ result.out.ok
                   /\ stored = {f \in stored : result.out.value = as_dict(f, svc._project)}

\* the project holds contract A with f(), and the lookups of a.f() and of
\* A.F() find nothing
C11_Witness ==
    /\ svc._project # NoObj
    /\ StoredUnder(svc._project, cA, sigF) # {}
    /\ \/ arg = <<<<"a">>, sigF>>
       \/ arg = <<cA, <<"F", "(", ")">>>>
    /\ \/ result.op = "engine.get_function" /\ result.out = Ok(NoObj)
       \/ result.op = "get_function_source" /\ ~result.out.ok

(***************************************************************************)
(* The registry specification: register and lookup calls on the process-   *)
(* wide registry, starting from the registry as imported.  ret keeps, per  *)
(* name, the registration of the most recent register call that succeeded. *)
(***************************************************************************)
InitRegistry ==
    /\ registry = ImportedRegistry
    /\ ret = ImportedRegistry
    /\ hist = NoHist
    /\ result = [op |-> "new"]
    /\ arg = <<>>
    /\ pc = "registry"
    /\ svc = <<>> /\ engine = <<>> /\ backend = <<>>

RegistryRegister ==
    /\ hist.ops < MaxRegistryCalls
    /\ \E name \in EngineNames, factory \in EngineClasses, override \in BOOLEAN :
          \E run \in {register(registry, EngineRegistration(name, factory), override)} :
              /\ registry' = run.engines
              /\ result' = [op |-> "register", out |-> run.out]
              /\ arg' = <<EngineRegistration(name, factory), override>>
              /\ ret' = IF run.out.ok
                        THEN [ret EXCEPT ![name] = EngineRegistration(name, factory)]
                        ELSE ret
              /\ hist' = [hist EXCEPT !.ops = @ + 1]
              /\ UNCHANGED <<svc, engine, backend, pc>>

RegistryLookup ==
    /\ hist.ops < MaxRegistryCalls
    /\ \E name \in EngineNames :
          /\ result' = [op |-> "resolve_engine", out |-> resolve_engine(registry, name)]
          /\ arg' = <<name>>
          /\ hist' = [hist EXCEPT !.ops = @ + 1]
          /\ UNCHANGED <<registry, ret, svc, engine, backend, pc>>

SpecRegistry == InitRegistry /\ [][RegistryRegister \/ RegistryLookup]_vars

\* C12: registering a name that is registered, without override, raises
\* ValueError and leaves the registry unchanged; any other register call
\* succeeds and sets the entry of that name, leaving the others; a lookup of
\* a registered name returns the registration of the most recent successful
\* register of that name; a lookup of a name never registered raises
\* KeyError "Engine <name> is not registered", which is no Engine failure.
C12_RegistryKeepsLastRegistration ==
    /\ [][(result'.op = "register" /\ hist'.ops # hist.ops) =>
             IF registry[arg'[1].name] # NoObj /\ ~arg'[2]
             THEN /\ result'.out = Raise("ValueError",
                         <<"Engine ", arg'[1].name, " already registered">>)
                  /\ registry' = registry
             ELSE /\ result'.out.ok
                  /\ registry' = [registry EXCEPT ![arg'[1].name] = arg'[1]]]_vars
    /\ [](result.op = "resolve_engine" =>
             IF ret[arg[1]] = NoObj
             THEN /\ ~result.out.ok
                  /\ result.out.kind = "KeyError"
                  /\ result.out.kind # "EngineError"
                  /\ result.out.msg = <<"Engine ", arg[1], " is not registered">>
             ELSE result.out = Ok(ret[arg[1]]))

\* "slither" was replaced with override by another factory and the lookup
\* returns the replacement, while "mock" was never registered
C12_Witness ==
    /\ hist.ops >= 2
    /\ result.op = "resolve_engine"
    /\ arg = <<"slither">>
    /\ result.out = Ok(EngineRegistration("slither", "BaseEngine"))
    /\ registry["mock"] = NoObj

(***************************************************************************)
(* The conversion specification: one backend function is converted by      *)
(* _convert_function and the FunctionInfo is serialized by as_dict, for    *)
(* every shape of source mapping, with and without source text, the file   *)
(* being readable, missing or unreadable.                                  *)
(***************************************************************************)
fileRelative == <<"r">>

\* a source mapping names no file, an absolute one, or a relative one, and
\* reports up to MaxLines line numbers in any order
InitConvert ==
    LET Filenames ==
            {NoObj,
             [absolute |-> fileA, full_path |-> NoneStr, path |-> NoneStr, str |-> fileA],
             [absolute |-> NoneStr, full_path |-> NoneStr, path |-> fileRelative,
              str |-> fileRelative]}
        ConvertMappings ==
            {NoObj} \cup
            {[filename |-> filename, lines |-> lines,
              start_column |-> <<>>, end_column |-> <<>>] :
                filename \in Filenames, lines \in SeqsUpTo({1, 2, 3}, MaxLines)}
        FileStates == {FileLines, [state |-> "missing"], [state |-> "denied"]}
    IN  /\ arg \in [function : {RawFunction(cA, sigF, MissingAttr, source_mapping,
                                             source_code, <<>>, <<>>) :
                                    source_mapping \in ConvertMappings,
                                    source_code \in {NoneStr, <<" ", "g", " ">>}},
                    files : {<< <<fileA, content>>, <<fileRelative, content>> >> :
                                 content \in FileStates}]
        /\ ret = <<>>
        /\ pc = "start"
        /\ registry = <<>> /\ svc = <<>> /\ engine = <<>> /\ backend = <<>>
        /\ result = <<>> /\ hist = <<>>

ConvertFunction ==
    /\ pc = "start"
    /\ ret' = <<_convert_function(arg.function, arg.files)>>
    /\ pc' = "converted"
    /\ UNCHANGED <<arg, svcVars>>

SerializeFunction ==
    /\ pc = "converted"
    /\ ret[1].ok
    /\ ret' = Append(ret, as_dict(ret[1].value, [contracts |-> <<>>, engine_metadata |-> <<>>]))
    /\ pc' = "serialized"
    /\ UNCHANGED <<arg, svcVars>>

SpecConvert == InitConvert /\ [][ConvertFunction \/ SerializeFunction]_vars

\* C13 as stated: the payload's location is null when the backend gave no
\* source mapping, or one with no file or no lines, and otherwise a record
\* with a non-empty file and no -1 line number.
C13_NoPartialLocation ==
    pc = "serialized" =>
        LET source_mapping == arg.function.source_mapping
        IN  IF source_mapping = NoObj
            THEN ret[2].location = NoObj
            ELSE IF source_mapping.filename = NoObj \/ source_mapping.lines = <<>>
            THEN ret[2].location = NoObj
            ELSE /\ ret[2].location # NoObj
                 /\ ret[2].location.file # <<>>
                 /\ ret[2].location.start_line >= 0
                 /\ ret[2].location.end_line >= 0

\* C13: the payload's location is null exactly when the backend gave no
\* source mapping; otherwise it is a record of file, start_line and end_line,
\* where file is the resolved absolute path, or "" if the mapping names no
\* file, and start_line and end_line are the least and greatest reported
\* line, or both -1 if the mapping reports no lines.
C13_LocationNullOnlyWithoutMapping ==
    pc = "serialized" =>
        LET source_mapping == arg.function.source_mapping
        IN  IF source_mapping = NoObj
            THEN ret[2].location = NoObj
            ELSE /\ ret[2].location # NoObj
                 /\ DOMAIN ret[2].location = {"file", "start_line", "end_line"}
                 /\ ret[2].location.file =
                        IF source_mapping.filename = NoObj THEN <<>>
                        ELSE IF source_mapping.filename.str = fileRelative
                        THEN WorkingDirectory \o fileRelative
                        ELSE fileA
                 /\ IF source_mapping.lines = <<>>
                    THEN ret[2].location.start_line = -1 /\ ret[2].location.end_line = -1
                    ELSE /\ ret[2].location.start_line \in SetOf(source_mapping.lines)
                         /\ ret[2].location.end_line \in SetOf(source_mapping.lines)
                         /\ \A n \in SetOf(source_mapping.lines) :
                               /\ ret[2].location.start_line <= n
                               /\ n <= ret[2].location.end_line

\* a mapping without file whose lines come in descending order: the payload
\* holds an empty file and the sorted line range
C13_Witness ==
    /\ pc = "serialized"
    /\ arg.function.source_mapping # NoObj
    /\ arg.function.source_mapping.filename = NoObj
    /\ arg.function.source_mapping.lines = <<3, 1>>
    /\ ret[2].location = [file |-> <<>>, start_line |-> 1, end_line |-> 3]

\* C16: in the snippet fallback (no source text from the backend, a location
\* with a file and lines), a file that cannot be opened or read, for whatever
\* reason, gives the empty source without an error; a readable file gives
\* exactly the lines start_line..end_line.
C16_SnippetIsBestEffort ==
    (/\ pc # "start"
     /\ arg.function.source_code = NoneStr
     /\ arg.function.source_mapping # NoObj
     /\ arg.function.source_mapping.filename # NoObj
     /\ arg.function.source_mapping.lines # <<>>) =>
        LET content == DictGet(arg.files, _resolve_filename(arg.function.source_mapping))
            first == Min(SetOf(arg.function.source_mapping.lines))
            last == Max(SetOf(arg.function.source_mapping.lines))
        IN  /\ ret[1].ok
            /\ ret[1].value.source =
                   IF "lines" \in DOMAIN content
                   THEN Join([i \in 1..(last - first + 1) |-> content.lines[first + i - 1]])
                   ELSE <<>>

\* C14 as stated: over any sequence of the engine's public operations the
\* call-graph cache is written once, and once written its value never changes.
C14_CacheWrittenOnce ==
    /\ [](hist.cache_writes <= 1)
    /\ [][engine._call_graph_cache # NoObj =>
             engine'._call_graph_cache = engine._call_graph_cache]_vars

\* C14: the call-graph cache is written only at the end of a load() that
\* succeeds, once per such load, with the edges of that load's ProjectModel;
\* no other operation changes it, and once it is written ensure_loaded and
\* the lookups never load again, so only another explicit load() rewrites it.
C14_CacheWrittenOnlyByLoad ==
    /\ [][hist'.cache_writes # hist.cache_writes =>
             /\ hist'.cache_writes = hist.cache_writes + 1
             /\ hist'.loads_ok = hist.loads_ok + 1
             /\ result'.out.ok
             /\ engine'._project_model # NoObj
             /\ engine'._call_graph_cache =
                    [edges |-> _collect_call_edges(engine'._project_model)]]_vars
    /\ [][engine'._call_graph_cache # engine._call_graph_cache =>
             hist'.cache_writes = hist.cache_writes + 1]_vars
    /\ [][(engine._call_graph_cache # NoObj /\ hist'.ops # hist.ops
           /\ result'.op # "load") =>
             /\ hist'.loads = hist.loads
             /\ engine'._call_graph_cache = engine._call_graph_cache]_vars

\* two explicit loads of a project that changed in between wrote the cache
\* twice, and the lookup that followed left it alone
C14_Witness ==
    /\ hist.cache_writes = 2
    /\ hist.loads = 2
    /\ result.op = "get_function"
    /\ result.out.ok
    /\ engine._call_graph_cache = [edges |-> _collect_call_edges(engine._project_model)]

\* the places <<i, j, l>> of the stored calls: call l of function j of
\* contract i of the project, and the number of places before a given one
CallPlaces(project) ==
    UNION {UNION {{<<i, j, l>> : l \in 1..Len(project.contracts[i][2].functions[j][2].calls)} :
                     j \in 1..Len(project.contracts[i][2].functions)} :
              i \in 1..Len(project.contracts)}

PlacesBefore(project, place) ==
    {q \in CallPlaces(project) :
        \/ q[1] < place[1]
        \/ q[1] = place[1] /\ q[2] < place[2]
        \/ q[1] = place[1] /\ q[2] = place[2] /\ q[3] < place[3]}

\* C15: the call-graph cache is only ever computed from a ProjectModel whose
\* contracts were all converted and registered, and it holds exactly one edge
\* (f.identifier, callee) per entry of the call list of every stored function,
\* in the order of contracts, then functions, then calls; its length is the
\* sum of the lengths of the stored call lists.
C15_EdgesFollowStoredCalls ==
    (engine._call_graph_cache # NoObj) =>
        LET project == engine._project_model
            edges == engine._call_graph_cache.edges
        IN  /\ project # NoObj
            /\ project.contracts \in CompleteConversions
            /\ Len(edges) = Cardinality(CallPlaces(project))
            /\ \A place \in CallPlaces(project) :
                  LET function == project.contracts[place[1]][2].functions[place[2]][2]
                  IN  edges[Cardinality(PlacesBefore(project, place)) + 1] =
                          CallGraphEdge(function.identifier, function.calls[place[3]])

\* the loaded project has two contracts; a function with two stored calls is
\* followed by one of the other contract
C15_Witness ==
    /\ engine._call_graph_cache # NoObj
    /\ Len(engine._project_model.contracts) = 2
    /\ Len(engine._call_graph_cache.edges) = 3
    /\ engine._call_graph_cache.edges[1].caller = engine._call_graph_cache.edges[2].caller
    /\ engine._call_graph_cache.edges[3].caller.contract
           # engine._call_graph_cache.edges[1].caller.contract

(***************************************************************************)
(* The race specification: MaxThreads threads call ensure_loaded on one    *)
(* engine with nothing excluding each other.  Each statement of            *)
(* ensure_loaded and each assignment of load() is one step; the analysis   *)
(* of load() works on locals.  pc[t] is the position of thread t, arg[t]   *)
(* its locals (whether its check found no model, and the project its       *)
(* load() built), ret[t] what its call returned or raised.                 *)
(***************************************************************************)
Threads == 1..MaxThreads

InitRace ==
    /\ engine \in {NewEngine(cls, NoneStr) : cls \in EngineClasses}
    /\ backend \in Backends
    /\ hist = NoHist
    /\ pc = [t \in Threads |-> "check"]
    /\ arg = [t \in Threads |-> [saw_none |-> FALSE, project |-> NoObj]]
    /\ ret = [t \in Threads |-> NoObj]
    /\ result = [op |-> "new"]
    /\ registry = <<>> /\ svc = <<>>

\* a slip-free variant for comparison: the check waits while another thread
\* is between its check and its return
RaceCheckUnderLock(t) ==
    /\ pc[t] = "check"
    /\ \A u \in Threads \ {t} : pc[u] \in {"check", "done"}
    /\ hist' = [hist EXCEPT !.ensures = @ + 1]
    /\ IF engine._project_model = NoObj
       THEN /\ pc' = [pc EXCEPT ![t] = "load"]
            /\ arg' = [arg EXCEPT ![t].saw_none = TRUE]
       ELSE /\ pc' = [pc EXCEPT ![t] = "return"]
            /\ arg' = arg
    /\ UNCHANGED <<registry, svc, engine, backend, result, ret>>

\* ensure_loaded: if self._project_model is None
RaceCheck(t) ==
    /\ pc[t] = "check"
    /\ hist' = [hist EXCEPT !.ensures = @ + 1]
    /\ IF engine._project_model = NoObj
       THEN /\ pc' = [pc EXCEPT ![t] = "load"]
            /\ arg' = [arg EXCEPT ![t].saw_none = TRUE]
       ELSE /\ pc' = [pc EXCEPT ![t] = "return"]
            /\ arg' = arg
    /\ UNCHANGED <<registry, svc, engine, backend, result, ret>>

\* load(): the analyzer is built and the contracts are converted into a local
\* project; an exception ends the thread's call
RaceAnalyse(t) ==
    /\ pc[t] = "load"
    /\ \E run \in {Analyse(engine, backend, hist)} :
          /\ hist' = CountLoad(hist, run.out.ok)
          /\ IF run.out.ok
             THEN /\ arg' = [arg EXCEPT ![t].project = run.project]
                  /\ pc' = [pc EXCEPT ![t] = IF engine.cls = "SlitherEngine"
                                             THEN "set_slither" ELSE "store"]
                  /\ ret' = ret
             ELSE /\ arg' = arg
                  /\ pc' = [pc EXCEPT ![t] = "done"]
                  /\ ret' = [ret EXCEPT ![t] = run.out]
    /\ UNCHANGED <<registry, svc, engine, backend, result>>

\* SlitherEngine.load: its three closing assignments, one per step
RaceAssign(t) ==
    /\ pc[t] \in {"set_slither", "set_cache", "set_model"}
    /\ engine' =
          IF pc[t] = "set_slither" THEN [engine EXCEPT !._slither = [installed |-> TRUE]]
          ELSE IF pc[t] = "set_cache"
          THEN [engine EXCEPT !._call_graph_cache =
                                  [edges |-> _collect_call_edges(arg[t].project)]]
          ELSE [engine EXCEPT !._project_model = arg[t].project]
    /\ hist' = IF pc[t] = "set_cache" THEN [hist EXCEPT !.cache_writes = @ + 1] ELSE hist
    /\ pc' = [pc EXCEPT ![t] = IF pc[t] = "set_slither" THEN "set_cache"
                               ELSE IF pc[t] = "set_cache" THEN "set_model"
                               ELSE "store"]
    /\ UNCHANGED <<registry, svc, backend, result, arg, ret>>

\* ensure_loaded: self._project_model = (what load() returned)
RaceStore(t) ==
    /\ pc[t] = "store"
    /\ engine' = [engine EXCEPT !._project_model = arg[t].project]
    /\ pc' = [pc EXCEPT ![t] = "return"]
    /\ UNCHANGED <<registry, svc, backend, result, hist, arg, ret>>

\* ensure_loaded: return self._project_model
RaceReturn(t) ==
    /\ pc[t] = "return"
    /\ ret' = [ret EXCEPT ![t] = Ok(engine._project_model)]
    /\ pc' = [pc EXCEPT ![t] = "done"]
    /\ UNCHANGED <<registry, svc, engine, backend, result, hist, arg>>

SpecRace ==
    InitRace /\ [][\E t \in Threads : \/ RaceCheck(t)
                                      \/ RaceAnalyse(t)
                                      \/ RaceAssign(t)
                                      \/ RaceStore(t)
                                      \/ RaceReturn(t)]_vars

\* C17: ensure_loaded gives no "load runs at most once" guarantee to threads
\* that call it together.  Nothing makes a thread wait at its check, so a
\* thread at the check can always take it, whatever the others are doing;
\* every thread whose check found no model goes on to run load(), so load()
\* has run once for each such thread that is past it; and each assignment of
\* the model or of the call-graph cache overwrites what an earlier load left
\* there with the value of the assigning thread's own load.
C17_NoLoadOnceAmongThreads ==
    /\ \A t \in Threads : pc[t] = "check" => ENABLED RaceCheck(t)
    /\ hist.loads =
          Cardinality({t \in Threads : arg[t].saw_none /\ pc[t] \notin {"check", "load"}})
    /\ \A t \in Threads :
          pc[t] \in {"set_model", "store", "return"} /\ arg[t].saw_none
             => /\ arg[t].project # NoObj
                /\ engine.cls = "SlitherEngine" => engine._call_graph_cache # NoObj
    /\ (\A t \in Threads : pc[t] = "done" /\ arg[t].saw_none /\ ret[t] # NoObj /\ ret[t].ok)
          => /\ hist.loads_ok = MaxThreads
             /\ engine.cls = "SlitherEngine" => hist.cache_writes = MaxThreads
             /\ engine._project_model \in {arg[t].project : t \in Threads}

\* C17 witness: both threads found no model, both ran load() to the end, the
\* call-graph cache was written twice and the model left on the engine is not
\* the one of the first load()
C17_Witness ==
    /\ \A t \in Threads : pc[t] = "done" /\ arg[t].saw_none /\ ret[t] # NoObj /\ ret[t].ok
    /\ engine.cls = "SlitherEngine"
    /\ hist.loads_ok >= 2
    /\ hist.cache_writes >= 2
    /\ DictGet(engine._project_model.engine_metadata, "timestamp") # <<1>>

(***************************************************************************)
(* The agreement specification: one service over a project whose backend   *)
(* lists a function under a contract that is not its owner, or repeats a   *)
(* contract name or a signature, answering get_function_source and         *)
(* get_call_graph.                                                         *)
(***************************************************************************)
InitAgree ==
    LET \* B lists A.f, whose function.contract is A; A is listed as well
        ProjectInherited ==
            [ProjectToken EXCEPT !.contracts = <<RawContract(cA, fileA, <<RawAf, RawAg>>),
                                                 RawContract(cB, fileB, <<RawAf>>)>>]
        \* B lists A.f and A is not listed at all
        ProjectOwnerNotListed ==
            [ProjectToken EXCEPT !.contracts = <<RawContract(cB, fileB, <<RawAf>>)>>]
        \* the name A is listed twice: the later contract replaces the earlier
        ProjectTwiceA ==
            [ProjectToken EXCEPT !.contracts = <<RawContract(cA, fileA, <<RawAf, RawAg>>),
                                                 RawContract(cB, fileB, <<RawBf>>),
                                                 RawContract(cA, fileA, <<RawAg>>)>>]
        \* B lists the signature g() twice around f()
        ProjectTwiceG ==
            [ProjectLibrary EXCEPT !.contracts = <<RawContract(cB, fileB,
                                                               <<RawBg, RawBf, RawBg>>)>>]
    IN  /\ registry = ImportedRegistry
        /\ svc = NewService("slither", {})
        /\ engine = NoObj
        /\ backend \in {ProjectToken, ProjectLibrary, ProjectInherited,
                        ProjectOwnerNotListed, ProjectTwiceA, ProjectTwiceG}
        /\ hist = NoHist
        /\ result = [op |-> "new"]
        /\ arg = <<>> /\ ret = <<>> /\ pc = "service"

SpecAgree == InitAgree /\ [][LookupSource \/ GetCallGraph]_vars

\* C18: the two query operations agree on every loaded project.  When
\* get_function_source(c, s) has found a function, the callees of the edges
\* get_call_graph(caller_contract=c, caller_signature=s) returns are that
\* function's calls list, entry by entry in the same order, and no edge is
\* returned twice; and when get_call_graph has returned edges, the caller
\* (contract, signature) of each of them is found by get_function_source.
C18_QueriesAgree ==
    /\ (result.op = "get_function_source" /\ result.out.ok)
          => \A graph \in {get_call_graph(svc, engine, registry, backend, hist,
                                          arg[1], arg[2]).out} :
                /\ graph.ok
                /\ [i \in 1..Len(graph.value.items) |-> graph.value.items[i].callee]
                      = [i \in 1..Len(result.out.value.calls) |->
                            <<result.out.value.calls[i].module, ".",
                              result.out.value.calls[i].function>>]
                /\ \A i, j \in 1..Len(graph.value.items) :
                      graph.value.items[i] = graph.value.items[j] => i = j
    /\ (result.op = "get_call_graph" /\ result.out.ok)
          => \A i \in 1..Len(result.out.value.items) :
                get_function_source(svc, engine, registry, backend, hist,
                                    result.out.value.items[i].caller[1],
                                    result.out.value.items[i].caller[3]).out.ok
====
